---- MODULE Spec2Model ----
(***************************************************************************)
(* Model of api/scripts/update-types.ts: the script that reads the enum    *)
(* and column catalogs of a PostgreSQL database, renders TypeScript        *)
(* declarations from them and splices the text into src/db.ts after the    *)
(* line "export default db;".                                              *)
(*                                                                         *)
(* Text is modelled as TLA+ strings, character by character: Len, \o and   *)
(* SubSeq are the only string operations used.                             *)
(***************************************************************************)
EXTENDS Integers, Sequences, FiniteSets, TLC

VARIABLES
    enumRows,     \* catalog: rows of the pg_type/pg_enum query, <<[key, value]>>
    columnRows,   \* catalog: rows of the information_schema.columns query
    fileText,     \* content of src/db.ts on disk
    pc,           \* position of the process
    enums,        \* updateTypes: const enums (rows with their name)
    lines,        \* updateTypes: const lines
    source,       \* updateTypes: const source (text after .replace)
    stderr,       \* number of diagnostics written by console.error
    exitCode,     \* process exit code, NoExit while the process lives
    dbDestroyed,  \* db.destroy() has been called in this process
    writes,       \* number of fs.writeFileSync calls completed in this process
    failure,      \* which step of this process threw, "none" when none did
    fileBefore,   \* content of src/db.ts when this process started
    history,      \* one record per finished process
    arg,          \* input of a function applied on its own
    out,          \* result of that application
    fn            \* which function was applied, "none" before

procVars == <<enumRows, columnRows, fileText, pc, enums, lines, source, stderr,
              exitCode, dbDestroyed, writes, failure, fileBefore, history>>
unitVars == <<arg, out, fn>>
vars == <<enumRows, columnRows, fileText, pc, enums, lines, source, stderr,
          exitCode, dbDestroyed, writes, failure, fileBefore, history,
          arg, out, fn>>

(***************************************************************************)
(* Bounds of the model.                                                    *)
(***************************************************************************)
MaxRuns == 2        \* processes run one after the other on the same file
MaxWordLen == 3     \* length of the generated table names
MaxEnumRows == 3    \* rows of a generated enum catalog
MaxColumnRows == 3  \* rows of a generated column catalog

NoExit == -1

(***************************************************************************)
(* String primitives of JavaScript used by the script.                     *)
(***************************************************************************)
CharAt(s, i) == SubSeq(s, i, i)

endsWith(word, suffix) ==
    /\ Len(word) >= Len(suffix)
    /\ SubSeq(word, Len(word) - Len(suffix) + 1, Len(word)) = suffix

startsWith(word, prefix) ==
    /\ Len(word) >= Len(prefix)
    /\ SubSeq(word, 1, Len(prefix)) = prefix

\* word.substring(0, n)
substring0(word, n) == SubSeq(word, 1, n)

RECURSIVE join(_, _)
join(ls, sep) ==
    IF ls = <<>> THEN ""
    ELSE IF Len(ls) = 1 THEN ls[1]
    ELSE ls[1] \o sep \o join(Tail(ls), sep)

LowerLetters ==
    {"a", "b", "c", "d", "e", "f", "g", "h", "i", "j", "k", "l", "m",
     "n", "o", "p", "q", "r", "s", "t", "u", "v", "w", "x", "y", "z"}

toUpperCase(c) ==
    CASE c = "a" -> "A" [] c = "b" -> "B" [] c = "c" -> "C" [] c = "d" -> "D"
      [] c = "e" -> "E" [] c = "f" -> "F" [] c = "g" -> "G" [] c = "h" -> "H"
      [] c = "i" -> "I" [] c = "j" -> "J" [] c = "k" -> "K" [] c = "l" -> "L"
      [] c = "m" -> "M" [] c = "n" -> "N" [] c = "o" -> "O" [] c = "p" -> "P"
      [] c = "q" -> "Q" [] c = "r" -> "R" [] c = "s" -> "S" [] c = "t" -> "T"
      [] c = "u" -> "U" [] c = "v" -> "V" [] c = "w" -> "W" [] c = "x" -> "X"
      [] c = "y" -> "Y" [] c = "z" -> "Z" [] OTHER -> c

\* lodash upperFirst: the first character in upper case, the rest as it is.
upperFirst(s) ==
    IF s = "" THEN "" ELSE toUpperCase(CharAt(s, 1)) \o SubSeq(s, 2, Len(s))

\* lodash camelCase on names made of lower-case letters and "_": the words are
\* the maximal runs of letters, the first is kept and every later one gets
\* its first letter in upper case.
RECURSIVE camelFrom(_, _, _, _)
camelFrom(s, i, acc, boundary) ==
    IF i > Len(s) THEN acc
    ELSE LET c == CharAt(s, i) IN
         IF c \notin LowerLetters
         THEN camelFrom(s, i + 1, acc, TRUE)
         ELSE camelFrom(s, i + 1,
                        acc \o (IF boundary /\ acc # "" THEN toUpperCase(c) ELSE c),
                        FALSE)

camelCase(s) == camelFrom(s, 1, "", FALSE)

(***************************************************************************)
(* singular (update-types.ts:14-22).                                       *)
(***************************************************************************)
\* singular with the "es" rule dropping the two letters and adding nothing
singularDropsEs(word) ==
    IF endsWith(word, "ies") THEN substring0(word, Len(word) - 3) \o "y"
    ELSE IF endsWith(word, "es") THEN substring0(word, Len(word) - 2)
    ELSE IF endsWith(word, "s") THEN substring0(word, Len(word) - 1)
    ELSE word

singular(word) ==
    IF endsWith(word, "ies") THEN substring0(word, Len(word) - 3) \o "y"
    ELSE IF endsWith(word, "es") THEN substring0(word, Len(word) - 2) \o "y"
    ELSE IF endsWith(word, "s") THEN substring0(word, Len(word) - 1)
    ELSE word

(***************************************************************************)
(* Enum emission (update-types.ts:28-48).                                  *)
(***************************************************************************)
\* rows.map((x) => ({ ...x, name: upperFirst(camelCase(x.key)) }))
WithNames(rows) ==
    [i \in 1..Len(rows) |->
        [key |-> rows[i].key, value |-> rows[i].value,
         name |-> upperFirst(camelCase(rows[i].key))]]

\* x.value.replace(/[.-]/g, "_")
RECURSIVE sanitizeFrom(_, _)
sanitizeFrom(s, i) ==
    IF i > Len(s) THEN ""
    ELSE LET c == CharAt(s, i) IN
         (IF c = "." \/ c = "-" THEN "_" ELSE c) \o sanitizeFrom(s, i + 1)

sanitize(s) == sanitizeFrom(s, 1)

EnumOpenLine(x) == "export enum " \o x.name \o " {"
EnumMemberLine(x) == "  " \o sanitize(x.value) \o " = \"" \o x.value \o "\","
EnumCloseLine == "}\n"

\* enums[i - 1]?.key !== x.key
EnumOpens(es, i) == i = 1 \/ es[i - 1].key # es[i].key
\* the look-ahead left out: a block is closed after the last row only
EnumClosesAtEndOnly(es, i) == i = Len(es)

\* enums[i + 1]?.key !== x.key
EnumCloses(es, i) == i = Len(es) \/ es[i + 1].key # es[i].key

RECURSIVE EnumLinesFrom(_, _)
EnumLinesFrom(es, i) ==
    IF i > Len(es) THEN <<>>
    ELSE (IF EnumOpens(es, i) THEN <<EnumOpenLine(es[i])>> ELSE <<>>)
         \o <<EnumMemberLine(es[i])>>
         \o (IF EnumCloses(es, i) THEN <<EnumCloseLine>> ELSE <<>>)
         \o EnumLinesFrom(es, i + 1)

EnumLines(es) == EnumLinesFrom(es, 1)

(***************************************************************************)
(* Record emission (update-types.ts:66-92).                                *)
(***************************************************************************)
Nullable(x) == IF x.null = "YES" THEN " | null" ELSE ""

\* enums.find((e) => e.key === x.udt)?.name, used when some e has that key
FindEnumName(es, udt) ==
    es[CHOOSE i \in 1..Len(es) :
          /\ es[i].key = udt
          /\ \A j \in 1..(i - 1) : es[j].key # udt].name

\* the type rules with the udt test of the ARRAY rule left out
ColumnTypeAnyArray(x, es) ==
    IF x.type \in {"integer", "numeric", "decimal"} THEN "number"
    ELSE IF x.type = "boolean" THEN "boolean"
    ELSE IF x.type = "jsonb" THEN "any"
    ELSE IF x.type = "ARRAY" THEN "string[]"
    ELSE IF startsWith(x.type, "timestamp") \/ x.type = "date" THEN "Date"
    ELSE IF x.type = "USER-DEFINED" /\ \E i \in 1..Len(es) : es[i].key = x.udt
         THEN FindEnumName(es, x.udt)
    ELSE "string"

ColumnType(x, es) ==
    IF x.type \in {"integer", "numeric", "decimal"} THEN "number"
    ELSE IF x.type = "boolean" THEN "boolean"
    ELSE IF x.type = "jsonb" THEN "any"
    ELSE IF x.type = "ARRAY" /\ x.udt = "_text" THEN "string[]"
    ELSE IF startsWith(x.type, "timestamp") \/ x.type = "date" THEN "Date"
    ELSE IF x.type = "USER-DEFINED" /\ \E i \in 1..Len(es) : es[i].key = x.udt
         THEN FindEnumName(es, x.udt)
    ELSE "string"

\* the name singularized before it is put in Pascal case
RecordNameSingularFirst(table) == upperFirst(camelCase(singular(table)))

RecordName(table) == singular(upperFirst(camelCase(table)))

RecordOpenLine(x) == "export type " \o RecordName(x.table) \o " = {"
FieldLine(x, es) ==
    "  " \o x.col \o ": " \o ColumnType(x, es) \o Nullable(x) \o ";"
RecordCloseLine == "};\n"

\* columns[i - 1]?.table !== x.table
RecordOpens(cs, i) == i = 1 \/ cs[i - 1].table # cs[i].table
\* columns[i + 1]?.table !== x.table
RecordCloses(cs, i) == i = Len(cs) \/ cs[i + 1].table # cs[i].table

RECURSIVE ColumnLinesFrom(_, _, _)
ColumnLinesFrom(cs, es, i) ==
    IF i > Len(cs) THEN <<>>
    ELSE (IF RecordOpens(cs, i) THEN <<RecordOpenLine(cs[i])>> ELSE <<>>)
         \o <<FieldLine(cs[i], es)>>
         \o (IF RecordCloses(cs, i) THEN <<RecordCloseLine>> ELSE <<>>)
         \o ColumnLinesFrom(cs, es, i + 1)

ColumnLines(cs, es) == ColumnLinesFrom(cs, es, 1)

(***************************************************************************)
(* The merge (update-types.ts:94-104): String.prototype.replace with the   *)
(* pattern /^export default db;([\s\S]+)/m and a replacement string.       *)
(***************************************************************************)
Anchor == "export default db;"
Banner ==
    "// The TypeScript definitions below are automatically generated.\n"
    \o "// Do not touch them, or risk, your modifications being lost.\n\n"

\* the replacement string handed to replace
Replacement(ls) == Anchor \o "\n\n" \o Banner \o join(ls, "\n")

IsLineTerminator(c) == c = "\n" \/ c = "\r"

\* ^ under the m flag, the anchor text, then ([\s\S]+): one character at least
MatchesAt(text, i) ==
    /\ i + Len(Anchor) <= Len(text)
    /\ i = 1 \/ IsLineTerminator(CharAt(text, i - 1))
    /\ SubSeq(text, i, i + Len(Anchor) - 1) = Anchor

HasMatch(text) == \E i \in 1..Len(text) : MatchesAt(text, i)

\* the pattern has no g flag: the leftmost match
MatchIndex(text) ==
    CHOOSE i \in 1..Len(text) :
        /\ MatchesAt(text, i)
        /\ \A j \in 1..(i - 1) : ~MatchesAt(text, j)

\* index of the first "$" of repl at or after j, 0 when there is none
NextDollar(repl, j) ==
    IF \E k \in j..Len(repl) : CharAt(repl, k) = "$"
    THEN CHOOSE k \in j..Len(repl) :
            /\ CharAt(repl, k) = "$"
            /\ \A h \in j..(k - 1) : CharAt(repl, h) # "$"
    ELSE 0

\* GetSubstitution of ECMAScript with one capture group: $$, $&, $', $1 and
\* $01 are substituted, any other $ stands for itself. The rule for $ followed
\* by a grave accent (the text before the match) is left out: no text of the
\* model holds a grave accent.
RECURSIVE Substitute(_, _, _, _, _)
Substitute(repl, j, matched, after, group1) ==
    LET k == NextDollar(repl, j) IN
    IF k = 0 THEN SubSeq(repl, j, Len(repl))
    ELSE LET d == IF k + 1 <= Len(repl) THEN CharAt(repl, k + 1) ELSE ""
             e == IF k + 2 <= Len(repl) THEN CharAt(repl, k + 2) ELSE ""
             literal == SubSeq(repl, j, k - 1)
         IN  IF d = "$" THEN
                 literal \o "$"
                 \o Substitute(repl, k + 2, matched, after, group1)
             ELSE IF d = "&" THEN
                 literal \o matched
                 \o Substitute(repl, k + 2, matched, after, group1)
             ELSE IF d = "'" THEN
                 literal \o after
                 \o Substitute(repl, k + 2, matched, after, group1)
             ELSE IF d = "0" /\ e = "1" THEN
                 literal \o group1
                 \o Substitute(repl, k + 3, matched, after, group1)
             ELSE IF d = "1" THEN
                 literal \o group1
                 \o Substitute(repl, k + 2, matched, after, group1)
             ELSE
                 literal \o "$"
                 \o Substitute(repl, k + 1, matched, after, group1)

\* a merge that appends the generated text when the pattern does not match
ReplaceAppendsWithoutAnchor(text, repl) ==
    IF ~HasMatch(text) THEN text \o repl
    ELSE LET i == MatchIndex(text)
             before == SubSeq(text, 1, i - 1)
             matched == SubSeq(text, i, Len(text))
             group1 == SubSeq(text, i + Len(Anchor), Len(text))
         IN  before \o Substitute(repl, 1, matched, "", group1)

\* text.replace(/^export default db;([\s\S]+)/m, repl)
Replace(text, repl) ==
    IF ~HasMatch(text) THEN text
    ELSE LET i == MatchIndex(text)
             before == SubSeq(text, 1, i - 1)
             matched == SubSeq(text, i, Len(text))
             group1 == SubSeq(text, i + Len(Anchor), Len(text))
         IN  before \o Substitute(repl, 1, matched, "", group1)

(***************************************************************************)
(* Catalogs and target files the process is run on.                        *)
(***************************************************************************)
EnumRow(k, v) == [key |-> k, value |-> v]
ColumnRow(t, c, n, ty, u) == [table |-> t, col |-> c, null |-> n, type |-> ty, udt |-> u]

\* results of the enum query, ordered by typname, then enumsortorder
EnumCatalogs ==
    { <<>>,
      <<EnumRow("status_type", "active"), EnumRow("status_type", "done")>>,
      <<EnumRow("mood", "a.b"), EnumRow("mood", "a-b"), EnumRow("status_type", "done")>>,
      <<EnumRow("currency", "us$"), EnumRow("currency", "$$")>>,
      <<EnumRow("currency", "a$1")>>,
      <<EnumRow("currency", "$&")>> }

\* results of the column query, ordered by table_name, then ordinal_position
ColumnCatalogs ==
    { <<>>,
      <<ColumnRow("invoices", "id", "NO", "integer", "int4"),
        ColumnRow("invoices", "status", "NO", "USER-DEFINED", "status_type")>>,
      <<ColumnRow("user_roles", "tags", "YES", "ARRAY", "_text"),
        ColumnRow("users", "id", "NO", "integer", "int4"),
        ColumnRow("users", "created_at", "YES", "timestamp with time zone", "timestamptz")>>,
      <<ColumnRow("prices", "usd$1", "NO", "numeric", "numeric")>> }

\* contents of src/db.ts
TargetFiles ==
    { "",
      "import knex;\n",
      "const db = 1;\nexport default db;",
      "const db = 1;\nexport default db;\n",
      "const db = 1;\nexport default db;\n\n// old\nexport type Old = {};\n",
      "// export default db;\nexport default db;\nold",
      "export default db;\nA\nexport default db;\nB",
      "  export default db;\nold" }

(***************************************************************************)
(* The process (update-types.ts:24-114).                                   *)
(***************************************************************************)
Init ==
    /\ enumRows \in EnumCatalogs
    /\ columnRows \in ColumnCatalogs
    /\ fileText \in TargetFiles
    /\ pc = "start"
    /\ enums = <<>>
    /\ lines = <<>>
    /\ source = ""
    /\ stderr = 0
    /\ exitCode = NoExit
    /\ dbDestroyed = FALSE
    /\ writes = 0
    /\ failure = "none"
    /\ fileBefore = fileText
    /\ history = <<>>
    /\ arg = ""
    /\ out = ""
    /\ fn = "none"

\* the enum query resolves; the enum blocks are pushed to lines
FetchEnums ==
    /\ pc = "start"
    /\ enums' = WithNames(enumRows)
    /\ lines' = lines \o EnumLines(enums')
    /\ pc' = "columns"
    /\ UNCHANGED <<enumRows, columnRows, fileText, source, stderr, exitCode,
                   dbDestroyed, writes, failure, fileBefore, history>>
    /\ UNCHANGED unitVars

\* the enum query rejects
FetchEnumsFail ==
    /\ pc = "start"
    /\ failure' = "enums"
    /\ pc' = "rejected"
    /\ UNCHANGED <<enumRows, columnRows, fileText, enums, lines, source, stderr,
                   exitCode, dbDestroyed, writes, fileBefore, history>>
    /\ UNCHANGED unitVars

\* the column query resolves; the record blocks are pushed to lines
FetchColumns ==
    /\ pc = "columns"
    /\ lines' = lines \o ColumnLines(columnRows, enums)
    /\ pc' = "read"
    /\ UNCHANGED <<enumRows, columnRows, fileText, enums, source, stderr,
                   exitCode, dbDestroyed, writes, failure, fileBefore, history>>
    /\ UNCHANGED unitVars

\* the column query rejects
FetchColumnsFail ==
    /\ pc = "columns"
    /\ failure' = "columns"
    /\ pc' = "rejected"
    /\ UNCHANGED <<enumRows, columnRows, fileText, enums, lines, source, stderr,
                   exitCode, dbDestroyed, writes, fileBefore, history>>
    /\ UNCHANGED unitVars

\* fs.readFileSync(file, "utf8").replace(...)
ReadFile ==
    /\ pc = "read"
    /\ source' = Replace(fileText, Replacement(lines))
    /\ pc' = "write"
    /\ UNCHANGED <<enumRows, columnRows, fileText, enums, lines, stderr,
                   exitCode, dbDestroyed, writes, failure, fileBefore, history>>
    /\ UNCHANGED unitVars

\* fs.readFileSync throws
ReadFileFail ==
    /\ pc = "read"
    /\ failure' = "read"
    /\ pc' = "rejected"
    /\ UNCHANGED <<enumRows, columnRows, fileText, enums, lines, source, stderr,
                   exitCode, dbDestroyed, writes, fileBefore, history>>
    /\ UNCHANGED unitVars

\* fs.writeFileSync(file, source, "utf8")
WriteFile ==
    /\ pc = "write"
    /\ fileText' = source
    /\ writes' = writes + 1
    /\ pc' = "resolved"
    /\ UNCHANGED <<enumRows, columnRows, enums, lines, source, stderr,
                   exitCode, dbDestroyed, failure, fileBefore, history>>
    /\ UNCHANGED unitVars

\* what a failed fs.writeFileSync can leave on disk: the file as it was (the
\* open failed), or the file truncated by the open with nothing or only the
\* first part of the text written
AfterFailedWrite(old, text) == {old, "", SubSeq(text, 1, Len(text) \div 2)}

\* fs.writeFileSync throws
WriteFileFail ==
    /\ pc = "write"
    /\ fileText' \in AfterFailedWrite(fileText, source)
    /\ failure' = "write"
    /\ pc' = "rejected"
    /\ UNCHANGED <<enumRows, columnRows, enums, lines, source, stderr,
                   exitCode, dbDestroyed, writes, fileBefore, history>>
    /\ UNCHANGED unitVars

RunRecord(code) ==
    [before |-> fileBefore, after |-> fileText, generated |-> join(lines, "\n"),
     failure |-> failure, exitCode |-> code, destroyed |-> dbDestroyed,
     writes |-> writes]

\* a handler that reports the error and lets the process end with code 0
CatchExitsZero ==
    /\ pc = "rejected"
    /\ stderr' = stderr + 1
    /\ exitCode' = 0
    /\ pc' = "exited"
    /\ history' = Append(history, RunRecord(0))
    /\ UNCHANGED <<enumRows, columnRows, fileText, enums, lines, source,
                   dbDestroyed, writes, failure, fileBefore>>
    /\ UNCHANGED unitVars

\* .catch((err) => { console.error(err); process.exit(1); }): process.exit
\* ends the process inside the handler
Catch ==
    /\ pc = "rejected"
    /\ stderr' = stderr + 1
    /\ exitCode' = 1
    /\ pc' = "exited"
    /\ history' = Append(history, RunRecord(1))
    /\ UNCHANGED <<enumRows, columnRows, fileText, enums, lines, source,
                   dbDestroyed, writes, failure, fileBefore>>
    /\ UNCHANGED unitVars

\* .finally(() => db.destroy()) on the promise that .catch returned
Finally ==
    /\ pc = "resolved"
    /\ dbDestroyed' = TRUE
    /\ pc' = "destroyed"
    /\ UNCHANGED <<enumRows, columnRows, fileText, enums, lines, source, stderr,
                   exitCode, writes, failure, fileBefore, history>>
    /\ UNCHANGED unitVars

\* nothing is left to run: the process ends with code 0
ProcessEnd ==
    /\ pc = "destroyed"
    /\ exitCode' = 0
    /\ pc' = "exited"
    /\ history' = Append(history, RunRecord(0))
    /\ UNCHANGED <<enumRows, columnRows, fileText, enums, lines, source, stderr,
                   dbDestroyed, writes, failure, fileBefore>>
    /\ UNCHANGED unitVars

\* the script is started again on the same catalog and the file as it is now
Rerun ==
    /\ pc = "exited"
    /\ Len(history) < MaxRuns
    /\ pc' = "start"
    /\ enums' = <<>>
    /\ lines' = <<>>
    /\ source' = ""
    /\ stderr' = 0
    /\ exitCode' = NoExit
    /\ dbDestroyed' = FALSE
    /\ writes' = 0
    /\ failure' = "none"
    /\ fileBefore' = fileText
    /\ UNCHANGED <<enumRows, columnRows, fileText, history>>
    /\ UNCHANGED unitVars

Next ==
    \/ FetchEnums
    \/ FetchEnumsFail
    \/ FetchColumns
    \/ FetchColumnsFail
    \/ ReadFile
    \/ ReadFileFail
    \/ WriteFile
    \/ WriteFileFail
    \/ Catch
    \/ Finally
    \/ ProcessEnd
    \/ Rerun

Spec == Init /\ [][Next]_vars
(***************************************************************************)
(* The naming, grouping and type rules applied on their own, each to one   *)
(* input drawn from a bounded set.  The process does not run: pc = "idle". *)
(***************************************************************************)
Idle ==
    /\ fileText = ""
    /\ pc = "idle"
    /\ enums = <<>>
    /\ lines = <<>>
    /\ source = ""
    /\ stderr = 0
    /\ exitCode = NoExit
    /\ dbDestroyed = FALSE
    /\ writes = 0
    /\ failure = "none"
    /\ fileBefore = ""
    /\ history = <<>>

NameAlphabet == {"a", "e", "i", "s", "_"}

RECURSIVE WordsUpTo(_)
WordsUpTo(n) ==
    IF n = 0 THEN {""}
    ELSE LET shorter == WordsUpTo(n - 1)
         IN  shorter \cup {w \o c : w \in shorter, c \in NameAlphabet}

\* table names: every word of the alphabet up to MaxWordLen, and some plurals
TableNames ==
    WordsUpTo(MaxWordLen)
    \cup {"categories", "addresses", "users", "data", "invoices", "user_s",
          "user_roles", "boxes"}

InitName ==
    /\ Idle
    /\ enumRows = <<>>
    /\ columnRows = <<>>
    /\ arg \in TableNames
    /\ out = ""
    /\ fn = "none"

\* singular(word)
ApplySingular ==
    /\ pc = "idle" /\ fn = "none"
    /\ out' = singular(arg)
    /\ fn' = "singular"
    /\ UNCHANGED <<arg>>
    /\ UNCHANGED procVars

\* the record emitter on a table of one column: its first line declares the name
EmitDeclaration ==
    /\ pc = "idle" /\ fn = "none"
    /\ out' = ColumnLines(<<ColumnRow(arg, "id", "NO", "integer", "int4")>>, <<>>)[1]
    /\ fn' = "declaration"
    /\ UNCHANGED <<arg>>
    /\ UNCHANGED procVars

NextName == ApplySingular \/ EmitDeclaration

SpecName == InitName /\ [][NextName]_vars

\* ORDER BY of the two queries: the position of a name in the collation
NameOrder == <<"invoices", "mood", "priority", "status_type", "users", "visits">>
Rank(name) == CHOOSE i \in 1..Len(NameOrder) : NameOrder[i] = name

EnumKeys == {"mood", "priority", "status_type"}
EnumValues == {"a", "b.c"}
GroupTables == {"invoices", "users", "visits"}
GroupColumns == {"id", "name"}

RECURSIVE SeqsUpTo(_, _)
SeqsUpTo(S, n) ==
    IF n = 0 THEN {<<>>}
    ELSE LET shorter == SeqsUpTo(S, n - 1)
         IN  shorter \cup {Append(q, x) : q \in shorter, x \in S}

\* enum rows as the query returns them: ordered by typname
SortedEnumCatalogs ==
    {q \in SeqsUpTo({EnumRow(k, v) : k \in EnumKeys, v \in EnumValues}, MaxEnumRows) :
        \A i \in 1..(Len(q) - 1) : Rank(q[i].key) <= Rank(q[i + 1].key)}

\* column rows as the query returns them: ordered by table_name, a column
\* name once per table
SortedColumnCatalogs ==
    {q \in SeqsUpTo({ColumnRow(t, c, "NO", "integer", "int4") :
                        t \in GroupTables, c \in GroupColumns}, MaxColumnRows) :
        /\ \A i \in 1..(Len(q) - 1) : Rank(q[i].table) <= Rank(q[i + 1].table)
        /\ \A i, j \in 1..Len(q) : i # j => q[i] # q[j]}

InitGroup ==
    /\ Idle
    /\ \/ enumRows \in SortedEnumCatalogs /\ columnRows = <<>>
       \/ enumRows = <<>> /\ columnRows \in SortedColumnCatalogs
    /\ arg = ""
    /\ out = <<>>
    /\ fn = "none"

\* enums.forEach(...)
EmitEnums ==
    /\ pc = "idle" /\ fn = "none"
    /\ enumRows # <<>>
    /\ out' = EnumLines(WithNames(enumRows))
    /\ fn' = "enums"
    /\ UNCHANGED <<arg>>
    /\ UNCHANGED procVars

\* columns.forEach(...)
EmitRecords ==
    /\ pc = "idle" /\ fn = "none"
    /\ columnRows # <<>>
    /\ out' = ColumnLines(columnRows, WithNames(enumRows))
    /\ fn' = "records"
    /\ UNCHANGED <<arg>>
    /\ UNCHANGED procVars

NextGroup == EmitEnums \/ EmitRecords

SpecGroup == InitGroup /\ [][NextGroup]_vars

SqlTypes ==
    {"integer", "numeric", "decimal", "boolean", "jsonb", "ARRAY", "date",
     "timestamp", "timestamp with time zone", "timestamp without time zone",
     "time without time zone", "USER-DEFINED", "text", "character varying",
     "bigint", "json", "uuid", "Timestamp", "user-defined"}
UdtNames == {"_text", "_int4", "mood", "status_type", "ghost", "text"}

TypeEnumCatalogs ==
    { <<>>,
      <<EnumRow("status_type", "active"), EnumRow("status_type", "done")>>,
      <<EnumRow("mood", "ok"), EnumRow("status_type", "active"), EnumRow("text", "t")>> }

InitType ==
    /\ Idle
    /\ enumRows \in TypeEnumCatalogs
    /\ columnRows = <<>>
    /\ arg \in {ColumnRow("t", "c", n, ty, u) :
                    n \in {"YES", "NO"}, ty \in SqlTypes, u \in UdtNames}
    /\ out = ""
    /\ fn = "none"

\* the field line of one column
MapType ==
    /\ pc = "idle" /\ fn = "none"
    /\ out' = FieldLine(arg, WithNames(enumRows))
    /\ fn' = "type"
    /\ UNCHANGED <<arg>>
    /\ UNCHANGED procVars

NextType == MapType

SpecType == InitType /\ [][NextType]_vars
(***************************************************************************)
(* Properties of the process (specification Spec).                         *)
(***************************************************************************)
Exited == pc = "exited"

\* the text the merge is described to give: what precedes the first match,
\* the anchor, the banner and the generated lines as they are
MergedText(text, ls) ==
    SubSeq(text, 1, MatchIndex(text) - 1)
    \o Anchor \o "\n\n"
    \o "// The TypeScript definitions below are automatically generated.\n"
    \o "// Do not touch them, or risk, your modifications being lost.\n\n"
    \o join(ls, "\n")

C2_ConnectionReleased == Exited => dbDestroyed

C4_NoPartialSuccess ==
    /\ (Exited /\ failure # "write") =>
           \/ fileText = fileBefore
           \/ /\ HasMatch(fileBefore)
              /\ fileText = MergedText(fileBefore,
                                EnumLines(WithNames(enumRows))
                                \o ColumnLines(columnRows, WithNames(enumRows)))
    /\ failure \in {"enums", "columns", "read"} => fileText = fileBefore
    /\ writes <= 1
    /\ writes = 1 => pc \in {"resolved", "destroyed", "exited"}

\* C5 as stated: when the anchor pattern matches, the text to be written is
\* the content before the first match, the anchor, the banner and the
\* generated text, whatever the generated text and the prefix are.
C5_MergedTextLaw ==
    (pc = "write" /\ HasMatch(fileText)) => source = MergedText(fileText, lines)

\* C6 as stated: two successful runs on the same catalog generate the same
\* text, and the file after the second run is the file after the first.
C6_Idempotent ==
    (/\ Len(history) = 2
     /\ history[1].failure = "none"
     /\ history[2].failure = "none") =>
        /\ history[2].generated = history[1].generated
        /\ history[2].after = history[1].after

(***************************************************************************)
(* Properties of the emitters (specification SpecGroup).                   *)
(***************************************************************************)
RECURSIVE DistinctInOrder(_, _)
DistinctInOrder(ks, seen) ==
    IF ks = <<>> THEN <<>>
    ELSE IF Head(ks) \in seen THEN DistinctInOrder(Tail(ks), seen)
    ELSE <<Head(ks)>> \o DistinctInOrder(Tail(ks), seen \cup {Head(ks)})

CountLines(ls, Test(_)) == Cardinality({i \in 1..Len(ls) : Test(ls[i])})

\* one enum block: the rows of key k, in their order, between an opening and
\* a closing line
EnumBlock(es, k) ==
    LET rows == SelectSeq(es, LAMBDA x : x.key = k)
    IN  <<"export enum " \o upperFirst(camelCase(k)) \o " {">>
        \o [i \in 1..Len(rows) |->
               "  " \o sanitize(rows[i].value) \o " = \"" \o rows[i].value \o "\","]
        \o <<"}\n">>

RECURSIVE EnumBlocks(_, _)
EnumBlocks(es, ks) ==
    IF ks = <<>> THEN <<>> ELSE EnumBlock(es, Head(ks)) \o EnumBlocks(es, Tail(ks))

\* one record block: the columns of table t, in their order
RecordBlock(cs, es, t) ==
    LET rows == SelectSeq(cs, LAMBDA x : x.table = t)
    IN  <<RecordOpenLine(rows[1])>>
        \o [i \in 1..Len(rows) |-> FieldLine(rows[i], es)]
        \o <<"};\n">>

RECURSIVE RecordBlocks(_, _, _)
RecordBlocks(cs, es, ts) ==
    IF ts = <<>> THEN <<>>
    ELSE RecordBlock(cs, es, Head(ts)) \o RecordBlocks(cs, es, Tail(ts))

\* C7: on rows ordered by type key, the enum emitter gives one block per
\* distinct key, opened once and closed once, holding the member lines of the
\* rows of that key in their order, the blocks in order of first appearance;
\* the record emitter gives one block per distinct table, in table-name
\* order, holding the fields in the order of the rows.
C7_Grouping ==
    /\ fn = "enums" =>
           LET es == WithNames(enumRows)
               ks == DistinctInOrder([i \in 1..Len(es) |-> es[i].key], {})
               n == Cardinality({es[i].key : i \in 1..Len(es)})
           IN  /\ out = EnumBlocks(es, ks)
               /\ CountLines(out, LAMBDA l : startsWith(l, "export enum ")) = n
               /\ CountLines(out, LAMBDA l : l = "}\n") = n
               /\ Len(out) = Len(es) + 2 * n
    /\ fn = "records" =>
           LET ts == SelectSeq(NameOrder,
                        LAMBDA t : \E i \in 1..Len(columnRows) : columnRows[i].table = t)
               n == Cardinality({columnRows[i].table : i \in 1..Len(columnRows)})
           IN  /\ out = RecordBlocks(columnRows, WithNames(enumRows), ts)
               /\ CountLines(out, LAMBDA l : startsWith(l, "export type ")) = n
               /\ CountLines(out, LAMBDA l : l = "};\n") = n
               /\ Len(out) = Len(columnRows) + 2 * n

\* C7 witness: three enum rows of two type keys were emitted as two blocks.
C7_Witness ==
    /\ fn = "enums"
    /\ Len(enumRows) = 3
    /\ Cardinality({enumRows[i].key : i \in 1..Len(enumRows)}) = 2
    /\ Len(out) = 7
    /\ out[4] = "}\n"

(***************************************************************************)
(* Properties of the type rules (specification SpecType).                  *)
(***************************************************************************)
\* C8: the type expression of a column is number for integer, numeric and
\* decimal; boolean for boolean; any for jsonb; string[] for ARRAY of _text;
\* Date for date and for a type that starts with timestamp; the name of the
\* enum for USER-DEFINED with the key of a known enum; string for anything
\* else; and it is followed by " | null" exactly when the column is nullable.
C8_TypeMapperLaw ==
    fn = "type" =>
        LET t == arg.type
            known == \E i \in 1..Len(enumRows) : enumRows[i].key = arg.udt
            is(expr) == out = "  c: " \o expr \o ";"
                        \/ out = "  c: " \o expr \o " | null;"
            numeric == t \in {"integer", "numeric", "decimal"}
            textArray == t = "ARRAY" /\ arg.udt = "_text"
            dated == t = "date" \/ (Len(t) >= 9 /\ SubSeq(t, 1, 9) = "timestamp")
            enumerated == t = "USER-DEFINED" /\ known
        IN  /\ numeric => is("number")
            /\ t = "boolean" => is("boolean")
            /\ t = "jsonb" => is("any")
            /\ textArray => is("string[]")
            /\ dated => is("Date")
            /\ enumerated => is(upperFirst(camelCase(arg.udt)))
            /\ ~(numeric \/ t = "boolean" \/ t = "jsonb" \/ textArray \/ dated
                 \/ enumerated) => is("string")
            /\ endsWith(out, " | null;") <=> arg.null = "YES"

\* C8 witness: a nullable USER-DEFINED column of a known enum was mapped to
\* the name of the enum with the null union.
C8_Witness ==
    /\ fn = "type"
    /\ arg.type = "USER-DEFINED"
    /\ arg.udt = "status_type"
    /\ arg.null = "YES"
    /\ out = "  c: StatusType | null;"

(***************************************************************************)
(* Properties of the naming rules (specification SpecName).                *)
(***************************************************************************)
\* the rule chain of singularize: ies -> y, else es -> y, else s dropped
SingularRuleChain(word, result) ==
    /\ endsWith(word, "ies") => result = SubSeq(word, 1, Len(word) - 3) \o "y"
    /\ (~endsWith(word, "ies") /\ endsWith(word, "es")) =>
           result = SubSeq(word, 1, Len(word) - 2) \o "y"
    /\ (~endsWith(word, "es") /\ endsWith(word, "s")) =>
           result = SubSeq(word, 1, Len(word) - 1)
    /\ ~endsWith(word, "s") => result = word

\* C9 as stated: categories -> category, addresses -> addres, users -> user,
\* data -> data, under the rule chain.
C9_UnitLawsAsStated ==
    fn = "singular" =>
        /\ arg = "categories" => out = "category"
        /\ arg = "addresses" => out = "addres"
        /\ arg = "users" => out = "user"
        /\ arg = "data" => out = "data"
        /\ SingularRuleChain(arg, out)

\* C9 amended: categories -> category, addresses -> addressy, users -> user,
\* data -> data, under the rule chain.
C9_UnitLaws ==
    fn = "singular" =>
        /\ arg = "categories" => out = "category"
        /\ arg = "addresses" => out = "addressy"
        /\ arg = "users" => out = "user"
        /\ arg = "data" => out = "data"
        /\ SingularRuleChain(arg, out)

\* C9 witness: singular was applied to addresses.
C9_Witness == fn = "singular" /\ arg = "addresses" /\ out = "addressy"

\* C10 as stated: the record block of a table is declared under the name of
\* the singularized table put in Pascal case.
C10_SingularThenPascal ==
    fn = "declaration" =>
        out = "export type " \o upperFirst(camelCase(singular(arg))) \o " = {"

\* C10 amended: the record block of a table is declared under the table name
\* put in Pascal case and then singularized.
C10_PascalThenSingular ==
    fn = "declaration" =>
        LET pascal == upperFirst(camelCase(arg))
            name == IF endsWith(pascal, "ies")
                        THEN SubSeq(pascal, 1, Len(pascal) - 3) \o "y"
                    ELSE IF endsWith(pascal, "es")
                        THEN SubSeq(pascal, 1, Len(pascal) - 2) \o "y"
                    ELSE IF endsWith(pascal, "s")
                        THEN SubSeq(pascal, 1, Len(pascal) - 1)
                    ELSE pascal
        IN  out = "export type " \o name \o " = {"

\* C10 witness: the table user_s was declared as UserS, where singularizing
\* first would give User.
C10_Witness ==
    /\ fn = "declaration"
    /\ arg = "user_s"
    /\ out = "export type UserS = {"
====
